---- MODULE Spec2Model ----
(***************************************************************************)
(* State-machine model of CSCI3302_hw2_rrt.py: the 2-D worlds and their    *)
(* state_is_valid closures, the rejection sampler get_random_valid_vertex, *)
(* the RRT driver rrt and the three helpers get_nearest_vertex, steer and  *)
(* check_path_valid as the file defines them.                              *)
(*                                                                         *)
(* Points are fixed-point vectors: a coordinate c stands for the real      *)
(* number c / RandLevels, and np.random.rand() is one of the values        *)
(* 0/RandLevels .. (RandLevels-1)/RandLevels of [0, 1).                    *)
(***************************************************************************)
EXTENDS Integers, Sequences, FiniteSets

\* ---- bounds of the model ----
RandLevels == 3      \* number of values np.random.rand() can take
MaxK == 2            \* largest iteration budget k passed to rrt
MaxDraws == 3        \* the draw counter of the sampler saturates here
MaxPathLen == 2      \* longest path / node list handed to the helpers

\* ---- program constants ----
Dim == 2             \* state_bounds.shape[0] of both worlds

None == <<>>         \* Python's None where a point is expected
NoParent == 0        \* Python's None where a parent Node is expected

VARIABLES
  state_bounds,      \* matrix of <<min, max>> per dimension, in world units
  obstacles,         \* set of circular obstacles [center, radius]
  pc,                \* where the program is
  vertex,            \* get_random_valid_vertex: local `vertex`
  draws,             \* get_random_valid_vertex: loop iterations so far
  starting_point,    \* rrt: argument
  goal_point,        \* rrt: argument
  k,                 \* rrt: argument
  delta_q,           \* rrt: argument
  node_list,         \* rrt: local `node_list` / the returned list
  rrt_samples,       \* rrt: calls of get_random_valid_vertex it has made
  call_fn,           \* helper call: name of the function called
  call_args,         \* helper call: its arguments
  call_outcome,      \* helper call: "returned" or the exception raised
  call_result        \* helper call: the returned value

vars == <<state_bounds, obstacles, pc, vertex, draws, starting_point,
          goal_point, k, delta_q, node_list, rrt_samples,
          call_fn, call_args, call_outcome, call_result>>

\* ---- geometry ----
Sq(x) == x * x

\* squared Euclidean distance; np.linalg.norm(a - b) <= r  iff  Dist2(a, b) <= r*r
Dist2(a, b) == Sq(a[1] - b[1]) + Sq(a[2] - b[2])

\* ---- worlds ----
\* bounds in world units; the fixed test world's and a shifted one
BoundsChoices == { <<<<0, 1>>, <<0, 1>>>>, <<<<1, 2>>, <<0, 1>>>> }

\* lower / upper bound of dimension d on the fixed-point grid
BoundMin(d) == state_bounds[d][1] * RandLevels
BoundMax(d) == state_bounds[d][2] * RandLevels

\* an obstacle is [pt, radius]; coordinates and radius on the fixed-point grid
Obstacle(c, r) == [center |-> c, radius |-> r]

ObstacleWorlds ==
  { {},
    { Obstacle(<<1, 1>>, 1) },
    { Obstacle(<<0, 0>>, 0), Obstacle(<<RandLevels + 1, 1>>, 1) },
    { Obstacle(<<RandLevels, 0>>, 4 * RandLevels) } }

state_is_valid(state) ==
  /\ \A dim \in 1..Dim :
        /\ ~(state[dim] < BoundMin(dim))
        /\ ~(state[dim] >= BoundMax(dim))
  /\ \A obs \in obstacles :
        ~(Dist2(state, obs.center) <= Sq(obs.radius))

\* ---- Node ----
\* variant: the constructor seeds path_from_parent with the node's own point
Node_seeded_path(pt, parent) ==
  [point |-> pt, parent |-> parent, path_from_parent |-> <<pt>>]

Node(pt, parent) ==
  [point |-> pt, parent |-> parent, path_from_parent |-> <<>>]

\* ---- get_random_valid_vertex ----
RandVectors == [1..Dim -> 0..(RandLevels - 1)]

\* pt = np.random.rand(n) * (bounds[:,1] - bounds[:,0]) + bounds[:,0]
random_point(r) ==
  [d \in 1..Dim |->
      r[d] * (state_bounds[d][2] - state_bounds[d][1]) + BoundMin(d)]

\* variant: the draw is kept without asking state_is_valid
accept_vertex_unchecked(pt) == pt

\* if state_is_valid(pt): vertex = pt
accept_vertex(pt) == IF state_is_valid(pt) THEN pt ELSE None

CountDraw(n) == IF n < MaxDraws THEN n + 1 ELSE n

\* variant: the loop gives up after MaxDraws draws
sampler_loops_capped(v, n) == v = None /\ n < MaxDraws

\* while vertex is None
sampler_loops(v, n) == v = None

\* ---- inputs of the calls ----
ArgCoords == (-1)..(2 * RandLevels)
ArgPoints == { <<x, y>> : x \in ArgCoords, y \in ArgCoords }
GoalArgs == { None, <<0, 0>>, <<1, 2>> }
DeltaChoices == { 1, 2 }
HelperPoints == { <<0, 0>>, <<2, 0>>, <<0, 2>>, <<1, 1>> }

RECURSIVE SeqsUpTo(_, _)
SeqsUpTo(S, n) ==
  IF n = 0 THEN { <<>> }
  ELSE LET shorter == SeqsUpTo(S, n - 1)
       IN shorter \cup { Append(s, x) : s \in { t \in shorter : Len(t) = n - 1 }, x \in S }

Paths == SeqsUpTo(HelperPoints, MaxPathLen)
NodeLists == { [i \in 1..Len(p) |-> Node(p[i], NoParent)] : p \in Paths \ { <<>> } }

\* ---- frames ----
SamplerIdle == vertex' = None /\ draws' = 0
RrtIdle ==
  /\ starting_point' = None /\ goal_point' = None /\ k' = 0 /\ delta_q' = 0
  /\ node_list' = <<>> /\ rrt_samples' = 0
HelperIdle ==
  /\ call_fn' = "none" /\ call_args' = <<>>
  /\ call_outcome' = "none" /\ call_result' = None

Init ==
  /\ state_bounds \in BoundsChoices
  /\ obstacles \in ObstacleWorlds
  /\ pc = "main"
  /\ vertex = None /\ draws = 0
  /\ starting_point = None /\ goal_point = None /\ k = 0 /\ delta_q = 0
  /\ node_list = <<>> /\ rrt_samples = 0
  /\ call_fn = "none" /\ call_args = <<>>
  /\ call_outcome = "none" /\ call_result = None

\* ---- get_random_valid_vertex: entry, one loop iteration, return ----
get_random_valid_vertex_call ==
  /\ pc # "sampler_loop"
  /\ pc' = "sampler_loop"
  /\ vertex' = None
  /\ draws' = 0
  /\ RrtIdle /\ HelperIdle
  /\ UNCHANGED <<state_bounds, obstacles>>

get_random_valid_vertex_draw ==
  /\ pc = "sampler_loop"
  /\ sampler_loops(vertex, draws)
  /\ \E r \in RandVectors :
        vertex' = accept_vertex(random_point(r))
  /\ draws' = CountDraw(draws)
  /\ UNCHANGED <<state_bounds, obstacles, pc, starting_point, goal_point, k,
                 delta_q, node_list, rrt_samples,
                 call_fn, call_args, call_outcome, call_result>>

get_random_valid_vertex_return ==
  /\ pc = "sampler_loop"
  /\ ~sampler_loops(vertex, draws)
  /\ pc' = "sampler_returned"
  /\ UNCHANGED <<state_bounds, obstacles, vertex, draws, starting_point,
                 goal_point, k, delta_q, node_list, rrt_samples,
                 call_fn, call_args, call_outcome, call_result>>

\* ---- rrt ----
\* variant: the root is built from the goal when one is given
rrt_root_from_goal(sp, gp, kk, dq) ==
  <<Node(IF gp = None THEN sp ELSE gp, NoParent)>>

\* node_list = []; node_list.append(Node(starting_point, parent=None)); return node_list
rrt(sp, gp, kk, dq) == <<Node(sp, NoParent)>>

\* the body of rrt calls get_random_valid_vertex nowhere
rrt_sampler_calls(sp, gp, kk, dq) == 0

rrt_call ==
  /\ pc # "sampler_loop"
  /\ \E sp \in ArgPoints, gp \in GoalArgs, kk \in 0..MaxK, dq \in DeltaChoices :
        /\ starting_point' = sp
        /\ goal_point' = gp
        /\ k' = kk
        /\ delta_q' = dq
        /\ node_list' = rrt(sp, gp, kk, dq)
        /\ rrt_samples' = rrt_sampler_calls(sp, gp, kk, dq)
  /\ pc' = "rrt_returned"
  /\ SamplerIdle /\ HelperIdle
  /\ UNCHANGED <<state_bounds, obstacles>>

\* ---- the helpers: each body is `raise NotImplementedError` ----
get_nearest_vertex(nl, q_point) ==
  [outcome |-> "NotImplementedError", result |-> None]

steer(from_point, to_point, dq) ==
  [outcome |-> "NotImplementedError", result |-> None]

check_path_valid(path) ==
  [outcome |-> "NotImplementedError", result |-> None]

HelperCall(fn, args, r) ==
  /\ pc # "sampler_loop"
  /\ pc' = "helper_done"
  /\ call_fn' = fn
  /\ call_args' = args
  /\ call_outcome' = r.outcome
  /\ call_result' = r.result
  /\ SamplerIdle /\ RrtIdle
  /\ UNCHANGED <<state_bounds, obstacles>>

get_nearest_vertex_call ==
  \E nl \in NodeLists, q \in HelperPoints :
     HelperCall("get_nearest_vertex", <<nl, q>>, get_nearest_vertex(nl, q))

steer_call ==
  \E f \in HelperPoints, t \in HelperPoints, dq \in DeltaChoices :
     HelperCall("steer", <<f, t, dq>>, steer(f, t, dq))

check_path_valid_call ==
  \E p \in Paths :
     HelperCall("check_path_valid", <<p>>, check_path_valid(p))

Next ==
  \/ get_random_valid_vertex_call
  \/ get_random_valid_vertex_draw
  \/ get_random_valid_vertex_return
  \/ rrt_call
  \/ get_nearest_vertex_call
  \/ steer_call
  \/ check_path_valid_call

Spec == Init /\ [][Next]_vars

TypeOK ==
  /\ pc \in {"main", "sampler_loop", "sampler_returned", "rrt_returned", "helper_done"}
  /\ draws \in 0..MaxDraws
  /\ k \in 0..MaxK
(***************************************************************************)
(* Properties                                                              *)
(***************************************************************************)
NumWaypoints == 10   \* points on a steered edge
Returned == pc = "rrt_returned"
HelperDone(fn) == pc = "helper_done" /\ call_fn = fn

\* C1: with goal_point = None, rrt performs exactly k sampling attempts
\* before it returns the node list.
C1_ExactlyKSamples ==
  (Returned /\ goal_point = None) => rrt_samples = k

\* following parent links from node i reaches index 1 in at most `fuel` steps
RECURSIVE ReachesRoot(_, _, _)
ReachesRoot(nl, i, fuel) ==
  IF i = 1 THEN TRUE
  ELSE IF fuel = 0 \/ nl[i].parent \notin 1..Len(nl) THEN FALSE
  ELSE ReachesRoot(nl, nl[i].parent, fuel - 1)

\* C3: in the returned node list, index 1 is the root built from
\* starting_point with no parent and an empty path_from_parent; every other
\* node has a parent earlier in the list, and parent links lead to the root
\* without a cycle.
C3_TreeConnectivity ==
  Returned =>
    /\ Len(node_list) >= 1
    /\ node_list[1].point = starting_point
    /\ node_list[1].parent = NoParent
    /\ node_list[1].path_from_parent = <<>>
    /\ \A i \in 2..Len(node_list) :
          /\ node_list[i].parent \in 1..(i - 1)
          /\ ReachesRoot(node_list, i, Len(node_list))

C3_Witness ==
  /\ Returned
  /\ Len(node_list) = 1
  /\ node_list[1].point = starting_point
  /\ starting_point # None

AllStatesValid(nl) ==
  \A i \in 1..Len(nl) :
     /\ state_is_valid(nl[i].point)
     /\ \A j \in 1..Len(nl[i].path_from_parent) :
           state_is_valid(nl[i].path_from_parent[j])

\* C4 as stated: for any starting_point, every node's state (the root's
\* included) and every waypoint of the returned list satisfies state_is_valid.
C4_AllStatesValid ==
  Returned => AllStatesValid(node_list)

\* C4 amended: every node's state and every waypoint of the returned list
\* satisfies state_is_valid provided starting_point itself satisfies it.
C4_AllStatesValidFromValidStart ==
  (Returned /\ state_is_valid(starting_point)) => AllStatesValid(node_list)

C4_Witness ==
  /\ Returned
  /\ obstacles # {}
  /\ goal_point # None
  /\ ~state_is_valid(goal_point)
  /\ state_is_valid(starting_point)
  /\ state_is_valid(node_list[1].point)

\* index of the first node of nl at minimum distance from q
NearestIndex(nl, q) ==
  CHOOSE i \in 1..Len(nl) :
     /\ \A j \in 1..Len(nl) : Dist2(nl[i].point, q) <= Dist2(nl[j].point, q)
     /\ \A j \in 1..(i - 1) : Dist2(nl[j].point, q) > Dist2(nl[i].point, q)

\* C6: get_nearest_vertex returns the node of the list at minimum Euclidean
\* distance from the query point, the earliest one when several attain it.
C6_NearestVertex ==
  HelperDone("get_nearest_vertex") =>
    /\ call_outcome = "returned"
    /\ call_result = call_args[1][NearestIndex(call_args[1], call_args[2])]

\* e is the effective target of steering from f toward t with step dq
EffectiveTarget(f, t, dq, e) ==
  IF Dist2(f, t) <= Sq(dq)
  THEN e = t
  ELSE /\ Dist2(f, e) = Sq(dq)
       /\ (e[1] - f[1]) * (t[2] - f[2]) = (e[2] - f[2]) * (t[1] - f[1])
       /\ (e[1] - f[1]) * (t[1] - f[1]) + (e[2] - f[2]) * (t[2] - f[2]) > 0

\* the NumWaypoints evenly spaced points from f to e, each scaled by NumWaypoints - 1
EvenlySpaced(f, e) ==
  [i \in 1..NumWaypoints |->
     <<(NumWaypoints - i) * f[1] + (i - 1) * e[1],
       (NumWaypoints - i) * f[2] + (i - 1) * e[2]>>]

\* C7: steer returns exactly 10 evenly spaced points from from_point to the
\* effective target (to_point when within delta_q, else the point at distance
\* delta_q toward it); 10 copies of the point when from_point = to_point.
C7_Steer ==
  HelperDone("steer") =>
    /\ call_outcome = "returned"
    /\ \E e \in ArgPoints :
          /\ EffectiveTarget(call_args[1], call_args[2], call_args[3], e)
          /\ call_result = EvenlySpaced(call_args[1], e)

\* C8: check_path_valid returns true iff every point of the path satisfies
\* the validity predicate.
C8_CheckPathValid ==
  HelperDone("check_path_valid") =>
    /\ call_outcome = "returned"
    /\ call_result = (\A i \in 1..Len(call_args[1]) : state_is_valid(call_args[1][i]))

InBounds(pt) ==
  \A d \in 1..Dim : BoundMin(d) <= pt[d] /\ pt[d] < BoundMax(d)

\* C9: whenever get_random_valid_vertex returns, the returned point was
\* accepted by state_is_valid and lies in [min, max) of every dimension.
C9_SampledVertexValid ==
  pc = "sampler_returned" =>
    /\ vertex # None
    /\ state_is_valid(vertex)
    /\ InBounds(vertex)

C9_Witness ==
  /\ pc = "sampler_returned"
  /\ obstacles # {}
  /\ draws >= 2
  /\ vertex # None

\* state_is_valid rejects every point the sampler can draw
AllRejected == \A r \in RandVectors : ~state_is_valid(random_point(r))

\* C10: the sampler has no retry cap: when state_is_valid rejects every
\* in-bounds point it never returns and reports no failure; it returns only
\* with a drawn point that state_is_valid accepted.
C10_NoRetryCap ==
  /\ AllRejected => pc # "sampler_returned"
  /\ pc = "sampler_returned" =>
        \E r \in RandVectors :
           /\ state_is_valid(random_point(r))
           /\ vertex = random_point(r)
  /\ (pc = "sampler_loop" /\ vertex = None) => ENABLED get_random_valid_vertex_draw

C10_Witness ==
  /\ AllRejected
  /\ pc = "sampler_loop"
  /\ vertex = None
  /\ draws = MaxDraws
====
